---------------------------- MODULE Spec2Model ----------------------------
(***************************************************************************)
(* dephell_setuptools: the static reader (StaticReader, _static.py) and    *)
(* the distutils command of the subprocess reader (JSONCommand, _cmd.py).  *)
(*                                                                         *)
(* A script is the tuple of statement nodes ast.parse returns.  A node is  *)
(* a record with a field kind (the node's class) and the fields of that    *)
(* class the reader looks at.  Python's None is NoneNode.  A field's value *)
(* as content returns it is a record tagged by t: "None", "str", "list",   *)
(* "dict"; an escaping exception is Raise.                                 *)
(***************************************************************************)
EXTENDS Integers, Sequences, FiniteSets, TLC

VARIABLES
    script,   \* the statements of the file at self.path, as ast.parse gives them
    cache,    \* the instance's cached properties: tree, body, call, content
    nparse,   \* how many times the file was read and parsed
    evals,    \* how many times each property's getter ran and returned
    ret,      \* the last property access and what it gave
    dist,     \* JSONCommand.distribution: its attributes and get_* accessors
    output    \* the JSON object JSONCommand.run wrote

vars == <<script, cache, nparse, evals, ret, dist, output>>

---------------------------------------------------------------------------
(* AST nodes *)

NoneNode == [kind |-> "None"]
Str(s) == [kind |-> "Str", s |-> s]
Num == [kind |-> "Num"]
Name(id) == [kind |-> "Name", id |-> id]
Attribute(attr) == [kind |-> "Attribute", attr |-> attr]
Tuple(elts) == [kind |-> "Tuple", elts |-> elts]
Subscript == [kind |-> "Subscript"]
List(elts) == [kind |-> "List", elts |-> elts]
\* a mapping literal: keys[i] is NoneNode for a `**x` entry, as in ast.Dict
Dict(keys, values) == [kind |-> "Dict", keys |-> keys, values |-> values]
\* the arg of a `**x` keyword is None: NoArg
NoArg == "**"
Keyword(arg, value) == [arg |-> arg, value |-> value]
Call(func, keywords) == [kind |-> "Call", func |-> func, keywords |-> keywords]
Assign(targets, value) == [kind |-> "Assign", targets |-> targets, value |-> value]
Expr(value) == [kind |-> "Expr", value |-> value]
FunctionDef(body) == [kind |-> "FunctionDef", body |-> body]
If(body, orelse) == [kind |-> "If", body |-> body, orelse |-> orelse]
Import == [kind |-> "Import"]

(* resolved values *)

NoneV == [t |-> "None"]
StrV(s) == [t |-> "str", v |-> s]
ListV(l) == [t |-> "list", v |-> l]
\* a dict keeps its keys in insertion order: the sequence of <<key, value>>
DictV(d) == [t |-> "dict", v |-> d]
Raise == [t |-> "raise"]

---------------------------------------------------------------------------
(* StaticReader *)

\* _get_body: the generator's output, in the order it yields
RECURSIVE GetBody(_)
GetBody(elements) ==
    IF elements = <<>> THEN <<>>
    ELSE LET element == Head(elements)
             rest == GetBody(Tail(elements))
         IN  IF element.kind = "FunctionDef" THEN GetBody(element.body) \o rest
             \* the If branch has no `continue`: after its body the If node
             \* itself reaches the final `yield element`
             ELSE IF element.kind = "If"
                  THEN GetBody(element.body) \o <<element>> \o rest
             ELSE IF element.kind = "Expr" THEN <<element.value>> \o rest
             ELSE <<element>> \o rest

GetCallLast(elements) ==
    LET body == GetBody(elements)
        RECURSIVE Loop(_)
        Loop(i) ==
            IF i < 1 THEN NoneNode
            ELSE IF body[i].kind # "Call" THEN Loop(i - 1)
            ELSE IF body[i].func.kind # "Name" THEN Loop(i - 1)
            ELSE IF body[i].func.id # "setup" THEN Loop(i - 1)
            ELSE body[i]
    IN  Loop(Len(body))

\* _get_call
GetCall(elements) ==
    LET body == GetBody(elements)
        RECURSIVE Loop(_)
        Loop(i) ==
            IF i > Len(body) THEN NoneNode
            ELSE IF body[i].kind # "Call" THEN Loop(i + 1)
            ELSE IF body[i].func.kind # "Name" THEN Loop(i + 1)
            ELSE IF body[i].func.id # "setup" THEN Loop(i + 1)
            ELSE body[i]
    IN  Loop(1)

\* _find_in_call
FindInCall(call, name) ==
    LET RECURSIVE Loop(_)
        Loop(i) ==
            IF i > Len(call.keywords) THEN NoneNode
            ELSE IF call.keywords[i].arg = name THEN call.keywords[i].value
            ELSE Loop(i + 1)
    IN  Loop(1)

FindCallKwargsFirst(call) == FindInCall(call, NoArg)

\* _find_call_kwargs: the loop runs over reversed(call.keywords)
FindCallKwargs(call) ==
    LET RECURSIVE Loop(_)
        Loop(i) ==
            IF i < 1 THEN NoneNode
            ELSE IF call.keywords[i].arg = NoArg THEN call.keywords[i].value
            ELSE Loop(i - 1)
    IN  Loop(Len(call.keywords))

FindVariableInBodyLast(body, name) ==
    LET RECURSIVE Loop(_)
        Loop(i) ==
            IF i < 1 THEN NoneNode
            ELSE IF body[i].kind = "Assign"
                    /\ \E j \in 1..Len(body[i].targets) :
                          body[i].targets[j] = Name(name)
                 THEN body[i].value
            ELSE Loop(i - 1)
    IN  Loop(Len(body))

\* _find_variable_in_body
FindVariableInBody(body, name) ==
    LET RECURSIVE Targets(_, _)
        Targets(elem, j) ==
            IF j > Len(elem.targets) THEN FALSE
            ELSE IF elem.targets[j].kind # "Name" THEN Targets(elem, j + 1)
            ELSE IF elem.targets[j].id = name THEN TRUE
            ELSE Targets(elem, j + 1)
        RECURSIVE Loop(_)
        Loop(i) ==
            IF i > Len(body) THEN NoneNode
            ELSE IF body[i].kind # "Assign" THEN Loop(i + 1)
            ELSE IF Targets(body[i], 1) THEN body[i].value
            ELSE Loop(i + 1)
    IN  Loop(1)

\* _find_in_dict
FindInDict(dict_, name) ==
    LET RECURSIVE Loop(_)
        Loop(i) ==
            IF i > Len(dict_.keys) THEN NoneNode
            ELSE IF dict_.keys[i].kind = "Str" /\ dict_.keys[i].s = name
                 THEN dict_.values[i]
            ELSE Loop(i + 1)
    IN  Loop(1)

\* whether the lookup of name in the call reaches self.body for the `**` variable
\* (lines 68, 107, 156)
KwargsLooksUp(call, name) ==
    /\ FindInCall(call, name) = NoneNode
    /\ FindCallKwargs(call).kind = "Name"

\* the `value` the three _find_* methods hold when they reach `if value is None`
\* the second time (lines 171, 83, 122); NoneNode where they have returned early
FindValue(call, body, name) ==
    LET value == FindInCall(call, name)
        kwargs == FindCallKwargs(call)
        variable == FindVariableInBody(body, kwargs.id)
    IN  IF value # NoneNode THEN value
        ELSE IF kwargs.kind # "Name" THEN NoneNode
        ELSE IF variable.kind \notin {"Dict", "Call"} THEN NoneNode
        ELSE IF variable.kind = "Call"
             THEN IF variable.func.kind # "Name" THEN NoneNode
                  ELSE IF variable.func.id # "dict" THEN NoneNode
                  ELSE FindInCall(variable, name)
             ELSE FindInDict(variable, name)

FindSingleStringChain(call, body, name) ==
    LET value == FindValue(call, body, name)
        variable == FindVariableInBody(body, value.id)
        second == FindVariableInBody(body, variable.id)
    IN  IF value.kind = "Str" THEN StrV(value.s)
        ELSE IF value.kind = "Name" /\ variable.kind = "Str" THEN StrV(variable.s)
        ELSE IF value.kind = "Name" /\ variable.kind = "Name" /\ second.kind = "Str"
             THEN StrV(second.s)
        ELSE NoneV

\* _find_single_string
FindSingleString(call, body, name) ==
    LET value == FindValue(call, body, name)
        variable == FindVariableInBody(body, value.id)
    IN  IF value = NoneNode THEN NoneV
        ELSE IF value.kind = "Str" THEN StrV(value.s)
        ELSE IF value.kind = "Name" /\ variable.kind = "Str" THEN StrV(variable.s)
        ELSE NoneV

\* whether _find_single_string / _find_install_requires evaluate self.body
SingleLooksUp(call, body, name) ==
    KwargsLooksUp(call, name) \/ FindValue(call, body, name).kind = "Name"

\* [el.s for el in elts]: el.s is an AttributeError on a node that is no Str
StringsOf(elts) ==
    IF \E i \in 1..Len(elts) : elts[i].kind # "Str" THEN Raise
    ELSE ListV([i \in 1..Len(elts) |-> elts[i].s])

\* _find_install_requires
FindInstallRequires(call, body) ==
    LET value == FindValue(call, body, "install_requires")
        variable == FindVariableInBody(body, value.id)
    IN  IF value = NoneNode THEN ListV(<<>>)
        ELSE IF value.kind = "List" THEN StringsOf(value.elts)
        ELSE IF value.kind = "Name" /\ variable.kind = "List" THEN StringsOf(variable.elts)
        ELSE ListV(<<>>)

\* d[key] = val on a dict kept as the sequence of its items
DictSet(d, key, val) ==
    IF \E i \in 1..Len(d) : d[i][1] = key
    THEN [i \in 1..Len(d) |-> IF d[i][1] = key THEN <<key, val>> ELSE d[i]]
    ELSE Append(d, <<key, val>>)

\* key.s and [e.s for e in val.elts] of one entry with a List value (lines 131, 143)
EntryRaises(key, val) ==
    key.kind # "Str" \/ StringsOf(val.elts) = Raise

\* the loop over zip(keys, values) of a mapping literal (lines 126-131, 138-143),
\* from entry i on, with extras_require as built so far
RECURSIVE ExtrasLoop(_, _, _, _)
ExtrasLoop(node, body, i, extras_require) ==
    IF i > Len(node.keys) THEN DictV(extras_require)
    ELSE LET key == node.keys[i]
             val == IF node.values[i].kind = "Name"
                    THEN FindVariableInBody(body, node.values[i].id)
                    ELSE node.values[i]
         IN  IF val.kind # "List" THEN ExtrasLoop(node, body, i + 1, extras_require)
             ELSE IF EntryRaises(key, val) THEN Raise
             ELSE ExtrasLoop(node, body, i + 1,
                             DictSet(extras_require, key.s, StringsOf(val.elts).v))

\* whether that loop evaluates self.body: it reaches an entry whose value is a Name
RECURSIVE ExtrasLoopLooksUp(_, _)
ExtrasLoopLooksUp(node, i) ==
    IF i > Len(node.keys) THEN FALSE
    ELSE IF node.values[i].kind = "Name" THEN TRUE
    ELSE IF node.values[i].kind = "List" /\ EntryRaises(node.keys[i], node.values[i])
         THEN FALSE
    ELSE ExtrasLoopLooksUp(node, i + 1)

FindExtrasRequireNoHop(call, body) ==
    LET value == FindValue(call, body, "extras_require")
        variable == FindVariableInBody(body, value.id)
        NoHop(node) == [node EXCEPT !.values =
                          [i \in 1..Len(node.values) |->
                             IF node.values[i].kind = "Name" THEN NoneNode
                             ELSE node.values[i]]]
    IN  IF value = NoneNode THEN DictV(<<>>)
        ELSE IF value.kind = "Dict" THEN ExtrasLoop(NoHop(value), body, 1, <<>>)
        ELSE IF value.kind = "Name" /\ variable.kind = "Dict"
             THEN ExtrasLoop(NoHop(variable), body, 1, <<>>)
        ELSE DictV(<<>>)

\* _find_extras_require
FindExtrasRequire(call, body) ==
    LET value == FindValue(call, body, "extras_require")
        variable == FindVariableInBody(body, value.id)
    IN  IF value = NoneNode THEN DictV(<<>>)
        ELSE IF value.kind = "Dict" THEN ExtrasLoop(value, body, 1, <<>>)
        ELSE IF value.kind = "Name"
             THEN IF variable = NoneNode \/ variable.kind # "Dict" THEN DictV(<<>>)
                  ELSE ExtrasLoop(variable, body, 1, <<>>)
        ELSE DictV(<<>>)

ExtrasLooksUp(call, body) ==
    LET value == FindValue(call, body, "extras_require")
        variable == FindVariableInBody(body, value.id)
    IN  \/ KwargsLooksUp(call, "extras_require")
        \/ value.kind = "Name"
        \/ value.kind = "Dict" /\ ExtrasLoopLooksUp(value, 1)


FIELDNAMES == {"name", "version", "python_requires", "install_requires", "extras_require"}

\* the dict(...) of lines 14-21 for a call that is not None: its arguments are
\* evaluated in order and the first exception escapes
Content(call, body) ==
    LET install_requires == FindInstallRequires(call, body)
        extras_require == FindExtrasRequire(call, body)
    IN  IF install_requires = Raise \/ extras_require = Raise THEN Raise
        ELSE DictV([name |-> FindSingleString(call, body, "name"),
                    version |-> FindSingleString(call, body, "version"),
                    python_requires |-> FindSingleString(call, body, "python_requires"),
                    install_requires |-> install_requires,
                    extras_require |-> extras_require])

\* whether evaluating that dict(...) evaluates self.body
ContentLooksUp(call, body) ==
    \/ \E name \in {"name", "version", "python_requires", "install_requires"} :
            SingleLooksUp(call, body, name)
    \/ FindInstallRequires(call, body) # Raise /\ ExtrasLooksUp(call, body)

---------------------------------------------------------------------------
(* The instance: st is [cache, nparse, evals, out], out what the access gave *)

Unset == [set |-> FALSE]
Cached(v) == [set |-> TRUE, val |-> v]
Raised == [ok |-> FALSE]
Ok(v) == [ok |-> TRUE, val |-> v]

\* cached_property: the getter runs on the first access and the value it
\* returns is kept on the instance; an exception leaves nothing kept.
\* got is what the getter gives on st
CachedProperty(st, p, got) ==
    IF st.cache[p].set THEN [st EXCEPT !.out = Ok(st.cache[p].val)]
    ELSE IF got.out.ok
         THEN [got EXCEPT !.cache[p] = Cached(got.out.val), !.evals[p] = @ + 1]
         ELSE got

\* tree's getter: read and parse the file
TreeGetter(st) == [st EXCEPT !.nparse = @ + 1, !.out = Ok(script)]

Tree(st) == CachedProperty(st, "tree", TreeGetter(st))

CallGetterReparse(st) ==
    LET t == TreeGetter(st) IN [t EXCEPT !.out = Ok(GetCall(t.out.val))]

\* call's getter
CallGetter(st) ==
    LET t == Tree(st) IN [t EXCEPT !.out = Ok(GetCall(t.out.val))]

TheCall(st) == CachedProperty(st, "call", CallGetter(st))

\* body's getter
BodyGetter(st) ==
    LET t == Tree(st) IN [t EXCEPT !.out = Ok(GetBody(t.out.val))]

Body(st) == CachedProperty(st, "body", BodyGetter(st))

\* content's getter
ContentGetter(st) ==
    LET c == TheCall(st)
        call == c.out.val
        \* self.body is evaluated where a lookup is reached, and not otherwise
        b == IF ContentLooksUp(call, GetBody(script)) THEN Body(c) ELSE c
        content == Content(call, GetBody(script))
    IN  IF call = NoneNode THEN [c EXCEPT !.out = Ok(NoneV)]
        ELSE IF content = Raise THEN [b EXCEPT !.out = Raised]
        ELSE [b EXCEPT !.out = Ok(content)]

TheContent(st) == CachedProperty(st, "content", ContentGetter(st))

Self == [cache |-> cache, nparse |-> nparse, evals |-> evals, out |-> Raised]

Access(p, r) ==
    /\ cache' = r.cache
    /\ nparse' = r.nparse
    /\ evals' = r.evals
    /\ ret' = [prop |-> p, out |-> r.out]
    /\ UNCHANGED <<script, dist, output>>

AccessTree == Access("tree", Tree(Self))
AccessBody == Access("body", Body(Self))
AccessCall == Access("call", TheCall(Self))
AccessContent == Access("content", TheContent(Self))

NextReader == AccessTree \/ AccessBody \/ AccessCall \/ AccessContent

\* the instance as __init__ leaves it, for the file holding s
InitReader(s) ==
    /\ script = s
    /\ cache = [tree |-> Unset, body |-> Unset, call |-> Unset, content |-> Unset]
    /\ nparse = 0
    /\ evals = [tree |-> 0, body |-> 0, call |-> 0, content |-> 0]
    /\ ret = [prop |-> "none", out |-> Raised]
    /\ dist = [attrs |-> <<>>, methods |-> <<>>]
    /\ output = NoneV

---------------------------------------------------------------------------
(* JSONCommand *)

\* _constants.FIELDS, the allow-list: the names this model's distributions use
FIELDS == {"name", "version", "python_requires", "install_requires",
           "extras_require", "entry_points"}

SetV(x) == [t |-> "set", v |-> x]

\* value in ('UNKNOWN', None, ['UNKNOWN'])
IsSentinel(value) == value \in {StrV("UNKNOWN"), NoneV, ListV(<<"UNKNOWN">>)}

\* the orders list(v) can give the elements of a set
ListsOf(x) ==
    {l \in [1..Cardinality(x) -> x] : \A i, j \in 1..Cardinality(x) : l[i] = l[j] => i = j}

\* list(v) for a set v, v itself for anything else (lines 78-79)
AsList(v) == IF v.t = "set" THEN {ListV(l) : l \in ListsOf(v.v)} ELSE {v}

\* what value can be after the loop over the items of entry_points (lines
\* 76-79); the value of any other attribute is left as it is
Normalised(key, value) ==
    IF key = "entry_points" /\ value.t = "dict"
    THEN LET items == UNION {{<<value.v[i][1], l>> : l \in AsList(value.v[i][2])} :
                                i \in 1..Len(value.v)}
         IN  {DictV(d) : d \in {d \in [1..Len(value.v) -> items] :
                                   \A i \in 1..Len(value.v) :
                                       /\ d[i][1] = value.v[i][1]
                                       /\ d[i][2] \in AsList(value.v[i][2])}}
    ELSE {value}

\* the loop over vars(self.distribution).items() (lines 73-82), from item i on,
\* the entry_points values already lists
RECURSIVE Attributes(_, _, _)
Attributes(attrs, i, data) ==
    IF i > Len(attrs) THEN data
    ELSE IF attrs[i][1] \notin FIELDS THEN Attributes(attrs, i + 1, data)
    ELSE IF IsSentinel(attrs[i][2]) THEN Attributes(attrs, i + 1, data)
    ELSE Attributes(attrs, i + 1, DictSet(data, attrs[i][1], attrs[i][2]))

MethodsKeepAttribute(methods, i, data) ==
    LET RECURSIVE Loop(_, _)
        Loop(n, d) ==
            IF n > Len(methods) THEN d
            ELSE IF methods[n].prefix # "get_" THEN Loop(n + 1, d)
            ELSE IF methods[n].rest \notin FIELDS THEN Loop(n + 1, d)
            ELSE IF IsSentinel(methods[n].value) THEN Loop(n + 1, d)
            ELSE IF \E j \in 1..Len(d) : d[j][1] = methods[n].rest THEN Loop(n + 1, d)
            ELSE Loop(n + 1, DictSet(d, methods[n].rest, methods[n].value))
    IN  Loop(i, data)

\* the loop over dir(self.distribution) (lines 85-94), from name i on: a name
\* is its first four characters, prefix, and what follows, rest
RECURSIVE Methods(_, _, _)
Methods(methods, i, data) ==
    IF i > Len(methods) THEN data
    ELSE IF methods[i].prefix # "get_" THEN Methods(methods, i + 1, data)
    ELSE IF methods[i].rest \notin FIELDS THEN Methods(methods, i + 1, data)
    ELSE IF IsSentinel(methods[i].value) THEN Methods(methods, i + 1, data)
    ELSE Methods(methods, i + 1, DictSet(data, methods[i].rest, methods[i].value))

\* json.dumps: a set is a TypeError
RECURSIVE JsonDumps(_)
JsonDumps(value) ==
    IF value.t = "set" THEN Raise
    ELSE IF value.t = "dict"
         THEN IF \E i \in 1..Len(value.v) : JsonDumps(value.v[i][2]) = Raise THEN Raise
              ELSE DictV([i \in 1..Len(value.v) |->
                             <<value.v[i][1], JsonDumps(value.v[i][2])>>])
    ELSE value

\* JSONCommand.run
Run ==
    \E attrs \in [1..Len(dist.attrs) -> UNION {{<<dist.attrs[i][1], v>> :
                                                  v \in Normalised(dist.attrs[i][1],
                                                                   dist.attrs[i][2])} :
                                              i \in 1..Len(dist.attrs)}] :
        /\ \A i \in 1..Len(attrs) : attrs[i][1] = dist.attrs[i][1]
        /\ dist' = [dist EXCEPT !.attrs = attrs]
        /\ output' = JsonDumps(DictV(Methods(dist.methods, 1, Attributes(attrs, 1, <<>>))))
        /\ UNCHANGED <<script, cache, nparse, evals, ret>>

Optional(S) == {<<>>} \cup {<<x>> : x \in S}

MetadataValues ==
    {StrV("UNKNOWN"), NoneV, ListV(<<"UNKNOWN">>), StrV("pkg"), ListV(<<"UNKNOWN", "x">>)}

\* a distribution: its attributes in the order vars() gives them, and the names
\* dir() gives in its (sorted) order with what calling each returns
InitCmd ==
    /\ script = <<>>
    /\ cache = [tree |-> Unset, body |-> Unset, call |-> Unset, content |-> Unset]
    /\ nparse = 0
    /\ evals = [tree |-> 0, body |-> 0, call |-> 0, content |-> 0]
    /\ ret = [prop |-> "none", out |-> Raised]
    /\ output = NoneV
    /\ \E script_name \in Optional({<<"script_name", StrV("setup.py")>>}) :
       \E name \in Optional({"name"} \X MetadataValues) :
       \E entry_points \in Optional({"entry_points"} \X
              { NoneV,
                DictV(<< <<"console_scripts", SetV({"a", "b"})>>,
                         <<"gui_scripts", ListV(<<"c">>)>> >>),
                DictV(<< <<"console_scripts", ListV(<<"a">>)>> >>) }) :
       \E get_fullname \in Optional({[prefix |-> "get_", rest |-> "fullname",
                                     value |-> StrV("pkg-1.0")]}) :
       \E get_name \in Optional({[prefix |-> "get_", rest |-> "name", value |-> v] :
                                    v \in MetadataValues \cup {StrV("Pkg")}}) :
       \E set_name \in Optional({[prefix |-> "set_", rest |-> "name",
                                  value |-> StrV("set")]}) :
           dist = [attrs |-> script_name \o name \o entry_points,
                   methods |-> get_fullname \o get_name \o set_name]

SpecCmd == InitCmd /\ [][Run]_vars

---------------------------------------------------------------------------
(* Scripts *)

MaxStmts == 3
MaxKeywords == 2
MaxElts == 2

SetupCall(keywords) == Call(Name("setup"), keywords)

LocateStmts ==
    { Expr(SetupCall(<<Keyword("name", Str("x"))>>)),
      Expr(SetupCall(<<Keyword("name", Name("a"))>>)),
      Expr(SetupCall(<<Keyword("install_requires", List(<<Name("a")>>))>>)),
      Expr(Call(Attribute("setup"), <<Keyword("name", Str("z"))>>)),
      Assign(<<Name("a")>>, SetupCall(<<Keyword("name", Str("w"))>>)),
      FunctionDef(<<If(<<Expr(SetupCall(<<Keyword("name", Str("t"))>>))>>,
                       <<Expr(SetupCall(<<Keyword("name", Str("e"))>>))>>),
                    Assign(<<Name("a")>>, Str("y"))>>),
      If(<<Import>>, <<Expr(SetupCall(<<Keyword("name", Str("o"))>>))>>),
      Import }

\* assignments to v of every target shape, and a call that reads v
LookupStmts ==
    { Assign(<<Name("v")>>, Str("1")),
      Assign(<<Name("v")>>, Str("2")),
      Assign(<<Name("w"), Name("v")>>, Str("3")),
      Assign(<<Tuple(<<Name("v"), Name("w")>>), Attribute("v"), Subscript>>, Str("4")),
      Assign(<<Name("w")>>, Str("5")),
      FunctionDef(<<Assign(<<Name("v")>>, Str("6"))>>),
      If(<<Assign(<<Name("v")>>, Str("7"))>>, <<Assign(<<Name("v")>>, Str("8"))>>),
      Expr(SetupCall(<<Keyword("version", Name("v"))>>)) }

SingleFields == {"name", "version", "python_requires"}

\* a is bound to a string, to another name or to a number, b to a string, k to a
\* dict(...) call or a mapping literal holding field; the call gives field
\* directly in every shape, through `**k`, or not at all
StrKeywords(field) ==
    { Keyword(field, Str("x")),
      Keyword(field, Name("a")),
      Keyword(field, List(<<Str("x")>>)),
      Keyword(NoArg, Name("k")),
      Keyword("url", Str("o")) }

InitStr ==
    \E field \in SingleFields :
    \E s1 \in { Assign(<<Name("a")>>, Str("A")), Assign(<<Name("a")>>, Name("b")),
                Assign(<<Name("a")>>, Num), Import } :
    \E s2 \in { Assign(<<Name("b")>>, Str("B")), Import } :
    \E s3 \in { Assign(<<Name("k")>>, Call(Name("dict"), <<Keyword(field, Str("K"))>>)),
                Assign(<<Name("k")>>, Dict(<<Str(field)>>, <<Name("a")>>)),
                Import } :
    \E n \in 0..MaxKeywords : \E keywords \in [1..n -> StrKeywords(field)] :
        InitReader(<<s1, s2, s3, Expr(SetupCall(keywords))>>)

\* two literals of the shape the field takes
Lit1(field) ==
    IF field \in SingleFields THEN Str("L")
    ELSE IF field = "install_requires" THEN List(<<Str("p"), Str("q")>>)
    ELSE Dict(<<Str("g")>>, <<List(<<Str("p")>>)>>)

Lit2(field) ==
    IF field \in SingleFields THEN Str("M")
    ELSE IF field = "install_requires" THEN List(<<Str("q")>>)
    ELSE Dict(<<Str("h")>>, <<List(<<Str("q")>>)>>)

\* k is bound in every shape the `**` path tests, k2 to a dict(...) call; the
\* call unpacks k, k2 or an inline mapping literal, one or several of them
KwKeywords(field) ==
    { Keyword(NoArg, Name("k")),
      Keyword(NoArg, Name("k2")),
      Keyword(NoArg, Dict(<<Str(field)>>, <<Lit1(field)>>)),
      Keyword("url", Str("o")),
      Keyword(field, Lit2(field)) }

InitKw ==
    \E field \in FIELDNAMES :
    \E s1 \in { Assign(<<Name("k")>>, Call(Name("dict"), <<Keyword(field, Lit1(field))>>)),
                Assign(<<Name("k")>>, Call(Name("dict"), <<Keyword(field, Name("a"))>>)),
                Assign(<<Name("k")>>, Call(Name("dict"), <<Keyword("url", Lit1(field))>>)),
                Assign(<<Name("k")>>, Call(Name("foo"), <<Keyword(field, Lit1(field))>>)),
                Assign(<<Name("k")>>, Call(Attribute("dict"), <<Keyword(field, Lit1(field))>>)),
                Assign(<<Name("k")>>, Dict(<<Name(field), Str(field)>>,
                                           <<Lit2(field), Lit1(field)>>)),
                Assign(<<Name("k")>>, Num),
                Import } :
    \E s2 \in { Assign(<<Name("k2")>>, Call(Name("dict"), <<Keyword(field, Lit2(field))>>)),
                Import } :
    \E s3 \in { Assign(<<Name("a")>>, Lit1(field)), Import } :
    \E n \in 0..MaxKeywords : \E keywords \in [1..n -> KwKeywords(field)] :
        InitReader(<<s1, s2, s3, Expr(SetupCall(keywords))>>)

\* list literals of strings and names; mapping literals whose keys are strings
\* or names and whose values are lists, names of lists, names of numbers, strings
CollElts == {Str("p"), Str("q"), Name("r")}

CollEntries ==
    {Str("g"), Str("h"), Name("r")}
        \X {List(<<Str("p")>>), List(<<Str("q"), Name("r")>>), Name("r"), Name("u"), Str("p")}

\* the literal given directly, through an alias, through `**` of a dict(...) call
\* and through `**` of a mapping literal
CollForms(field, lit) ==
    { <<Import, Expr(SetupCall(<<Keyword("name", Str("x")), Keyword(field, lit)>>))>>,
      <<Assign(<<Name("e")>>, lit),
        Expr(SetupCall(<<Keyword("name", Str("x")), Keyword(field, Name("e"))>>))>>,
      <<Assign(<<Name("k")>>, Call(Name("dict"), <<Keyword(field, lit)>>)),
        Expr(SetupCall(<<Keyword("name", Str("x")), Keyword(NoArg, Name("k"))>>))>>,
      <<Assign(<<Name("k")>>, Dict(<<Str(field)>>, <<lit>>)),
        Expr(SetupCall(<<Keyword("name", Str("x")), Keyword(NoArg, Name("k"))>>))>> }

CollPrefix ==
    <<Assign(<<Name("r")>>, List(<<Str("s"), Str("p")>>)), Assign(<<Name("u")>>, Num)>>

InitColl ==
    \E n \in 0..MaxElts :
        \/ \E elts \in [1..n -> CollElts] :
           \E form \in CollForms("install_requires", List(elts)) :
               InitReader(CollPrefix \o form)
        \/ \E es \in [1..n -> CollEntries] :
           \E form \in CollForms("extras_require",
                                 Dict([i \in 1..n |-> es[i][1]], [i \in 1..n |-> es[i][2]])) :
               InitReader(CollPrefix \o form)

Init == \E n \in 0..MaxStmts : \E s \in [1..n -> LocateStmts] : InitReader(s)

Spec == Init /\ [][NextReader]_vars

InitLookup == \E n \in 0..MaxStmts : \E s \in [1..n -> LookupStmts] : InitReader(s)

SpecLookup == InitLookup /\ [][NextReader]_vars

SpecStr == InitStr /\ [][NextReader]_vars

SpecKw == InitKw /\ [][NextReader]_vars

SpecColl == InitColl /\ [][NextReader]_vars

---------------------------------------------------------------------------
(* Claims *)

Props == {"tree", "body", "call", "content"}

\* the flattened body of the file
B == GetBody(script)

IsSetupCall(element) ==
    /\ element.kind = "Call"
    /\ element.func.kind = "Name"
    /\ element.func.id = "setup"

SetupCalls == {i \in 1..Len(B) : IsSetupCall(B[i])}

First(I) == CHOOSE i \in I : \A j \in I : i <= j

\* what content gives for the file holding tree
ContentOf(tree) ==
    IF GetCall(tree) = NoneNode THEN Ok(NoneV)
    ELSE IF Content(GetCall(tree), GetBody(tree)) = Raise THEN Raised
    ELSE Ok(Content(GetCall(tree), GetBody(tree)))

\* C1: content is None exactly when the flattened body holds no call of the bare
\* name setup, and in every other case a mapping with exactly the five keys.
C1_NoneIffNoSetupCall ==
    ret.prop = "content" =>
        IF SetupCalls = {} THEN ret.out = Ok(NoneV)
        ELSE /\ ret.out.ok
             /\ ret.out.val.t = "dict"
             /\ DOMAIN ret.out.val.v = FIELDNAMES

\* the top-level `setup(...)` statements that follow a setup call, dropped
RECURSIVE LaterCallsDropped(_, _)
LaterCallsDropped(tree, k) ==
    IF k > Len(tree) THEN <<>>
    ELSE IF /\ tree[k].kind = "Expr"
            /\ IsSetupCall(tree[k].value)
            /\ GetCall(SubSeq(tree, 1, k - 1)) # NoneNode
         THEN LaterCallsDropped(tree, k + 1)
    ELSE <<tree[k]>> \o LaterCallsDropped(tree, k + 1)

\* C2: call is the first element of the flattened body that is a call of the bare
\* name setup (None when there is none), and content is what it would be with
\* the later top-level setup(...) statements removed.
C2_FirstSetupCall ==
    /\ cache.call.set =>
          cache.call.val = IF SetupCalls = {} THEN NoneNode ELSE B[First(SetupCalls)]
    /\ ret.prop = "content" => ret.out = ContentOf(LaterCallsDropped(script, 1))

\* content was computed for a file with two different setup calls, the second
\* a top-level statement
C2_Witness ==
    /\ ret.prop = "content"
    /\ ret.out.ok
    /\ LaterCallsDropped(script, 1) # script
    /\ \E i \in SetupCalls : B[i] # B[First(SetupCalls)]
    /\ \E i \in 1..Len(B) : B[i].kind = "Call" /\ B[i].func.kind = "Attribute"
                             /\ i < First(SetupCalls)

\* the assignments of the flattened body with a simple-name target name
Assignments(name) ==
    {i \in 1..Len(B) :
        /\ B[i].kind = "Assign"
        /\ \E j \in 1..Len(B[i].targets) : B[i].targets[j] = Name(name)}

\* C8: looking up v gives the value of the first assignment of the flattened body
\* with a simple-name target v, wherever the setup call stands, and not found
\* when there is none.
C8_FirstAssignmentWins ==
    /\ FindVariableInBody(B, "v") =
          IF Assignments("v") = {} THEN NoneNode ELSE B[First(Assignments("v"))].value
    /\ ret.prop = "content" /\ cache.call.val # NoneNode =>
          ret.out.val.v.version =
              IF Assignments("v") = {} THEN NoneV
              ELSE StrV(B[First(Assignments("v"))].value.s)

\* content was computed where v is assigned after the call, again before it and
\* once more by a chained assignment
C8_Witness ==
    /\ ret.prop = "content"
    /\ ret.out.ok
    /\ SetupCalls # {}
    /\ \E i, j, k \in Assignments("v") :
          /\ i < First(SetupCalls) /\ First(SetupCalls) < j /\ i # k
          /\ B[i].value # B[j].value
          /\ Len(B[k].targets) > 1

\* the flattening the claim describes: an If gives its body and nothing else
RECURSIVE Flattened(_)
Flattened(elements) ==
    IF elements = <<>> THEN <<>>
    ELSE LET element == Head(elements)
         IN  (CASE element.kind = "FunctionDef" -> Flattened(element.body)
                [] element.kind = "If" -> Flattened(element.body)
                [] element.kind = "Expr" -> <<element.value>>
                [] OTHER -> <<element>>) \o Flattened(Tail(elements))

\* C9: body is the depth-first flattening in which a function definition and an
\* if statement are replaced by their flattened bodies, an expression statement
\* by its expression, and every other statement is kept.
C9_Flattened == cache.body.set => cache.body.val = Flattened(script)

\* C10: the file is parsed at most once, each getter returns at most once, a
\* kept value never changes and an access gives the kept value.
C10_Memoized ==
    /\ [](/\ nparse <= 1
          /\ \A p \in Props : evals[p] <= 1
          /\ \A p \in Props : ret.prop = p /\ cache[p].set => ret.out = Ok(cache[p].val))
    /\ [][\A p \in Props : cache[p].set => cache'[p] = cache[p]]_vars

\* content was given from the kept value, with tree, call and body kept too
C10_Witness ==
    /\ ret.prop = "content"
    /\ \A p \in Props : cache[p].set /\ evals[p] = 1
    /\ nparse = 1
    /\ cache.content.val # NoneV

\* the setup call of the file, and its keywords
SetupCallNode == B[First(SetupCalls)]
Keywords == SetupCallNode.keywords
Direct(field) == {i \in 1..Len(Keywords) : Keywords[i].arg = field}
Stars == {i \in 1..Len(Keywords) : Keywords[i].arg = NoArg}
Last(I) == CHOOSE i \in I : \A j \in I : i >= j

\* the binding of a name: the value of its first assignment
Binding(name) ==
    IF Assignments(name) = {} THEN NoneNode ELSE B[First(Assignments(name))].value

\* a bare name replaced by its binding
Hop(value) == IF value.kind = "Name" THEN Binding(value.id) ELSE value

\* the literal-extraction rule of a single-string field: a string literal, or a
\* bare name bound to one
ExtractString(value) ==
    IF value.kind = "Str" THEN StrV(value.s)
    ELSE IF value.kind = "Name" /\ Binding(value.id).kind = "Str"
         THEN StrV(Binding(value.id).s)
    ELSE NoneV

\* what content gave for field
Resolved(field) == ret.out.val.v[field]

ContentGiven == ret.prop = "content" /\ SetupCalls # {} /\ ret.out.ok

\* C4: a single-string field with a direct keyword is decided by that keyword
\* alone (the first of that name): a string literal gives the string, a bare name
\* the string literal it is bound to, anything else absent, whatever `**` holds.
C4_DirectKeywordDecides ==
    ContentGiven =>
        \A field \in SingleFields :
            Direct(field) # {} =>
                Resolved(field) = ExtractString(Keywords[First(Direct(field))].value)

\* content was computed for a call whose direct keyword is a name bound to a name
\* bound to a string, beside a `**k` whose k holds the field: the field is absent
C4_Witness ==
    /\ ContentGiven
    /\ \E field \in SingleFields :
          /\ Direct(field) # {}
          /\ Stars # {}
          /\ Keywords[First(Direct(field))].value = Name("a")
          /\ Binding("a") = Name("b")
          /\ Binding("b").kind = "Str"
          /\ Binding("k").kind = "Call"
          /\ Resolved(field) = NoneV

\* the value the `**` keyword i of the call supplies for field: v's binding is a
\* dict(...) call with a keyword field, or a mapping literal with a string key field
Supplied(i, field) ==
    LET v == Keywords[i].value
        call == Binding(v.id)
        K == {j \in 1..Len(call.keywords) : call.keywords[j].arg = field}
        E == {j \in 1..Len(call.keys) : call.keys[j] = Str(field)}
    IN  IF v.kind # "Name" THEN NoneNode
        ELSE IF call.kind = "Call" /\ call.func = Name("dict")
             THEN IF K = {} THEN NoneNode ELSE call.keywords[First(K)].value
        ELSE IF call.kind = "Dict"
             THEN IF E = {} THEN NoneNode ELSE call.values[First(E)]
        ELSE NoneNode

Strings(elts) == [i \in 1..Len(elts) |-> elts[i].s]

\* the literal-extraction rule of install_requires
ExtractList(value) ==
    IF Hop(value).kind = "List" /\ value.kind \in {"List", "Name"}
    THEN ListV(Strings(Hop(value).elts))
    ELSE ListV(<<>>)

RECURSIVE Ordered(_)
Ordered(I) == IF I = {} THEN <<>> ELSE <<First(I)>> \o Ordered(I \ {First(I)})

\* the entries of a mapping literal whose value, a bare name replaced by its
\* binding, is a list literal
ListEntries(d) == {i \in 1..Len(d.keys) : Hop(d.values[i]).kind = "List"}

\* those entries have string keys and lists of strings
AllStrings(d) ==
    \A i \in ListEntries(d) :
        /\ d.keys[i].kind = "Str"
        /\ \A j \in 1..Len(Hop(d.values[i]).elts) : Hop(d.values[i]).elts[j].kind = "Str"

\* one item per such entry, in order
Items(d) ==
    LET o == Ordered(ListEntries(d))
    IN  [n \in 1..Len(o) |-> <<d.keys[o[n]].s, Strings(Hop(d.values[o[n]]).elts)>>]

\* one item per key of such entries, in the order the keys first appear, each
\* with the list of the last entry of that key
ItemsLastWins(d) ==
    LET SameKey(i) == {j \in ListEntries(d) : d.keys[j] = d.keys[i]}
        o == Ordered({i \in ListEntries(d) : i = First(SameKey(i))})
    IN  [n \in 1..Len(o) |->
            <<d.keys[o[n]].s, Strings(Hop(d.values[Last(SameKey(o[n]))]).elts)>>]

\* the mapping literal extras_require resolves to, NoneNode when to none
MappingLiteral(value) ==
    IF value.kind \in {"Dict", "Name"} /\ Hop(value).kind = "Dict" THEN Hop(value)
    ELSE NoneNode

\* the literal-extraction rule of extras_require
ExtractMapping(value) ==
    IF MappingLiteral(value) = NoneNode THEN DictV(<<>>)
    ELSE DictV(ItemsLastWins(MappingLiteral(value)))

Extract(field, value) ==
    IF field \in SingleFields THEN ExtractString(value)
    ELSE IF field = "install_requires" THEN ExtractList(value)
    ELSE ExtractMapping(value)

\* C5 as stated, read for each `**` argument of the call: a field that has no
\* direct keyword is extracted from what that argument supplies, and is absent
\* or empty when the call has no `**` argument.
C5_AnyStarSupplies ==
    ContentGiven =>
        \A field \in FIELDNAMES :
            Direct(field) = {} =>
                /\ \A i \in Stars : Resolved(field) = Extract(field, Supplied(i, field))
                /\ Stars = {} => Resolved(field) = Extract(field, NoneNode)

\* C5, amended: a field that has no direct keyword is extracted from what the
\* last `**` argument of the call supplies, and is absent or empty when the call
\* has no `**` argument.
C5_LastStarSupplies ==
    ContentGiven =>
        \A field \in FIELDNAMES :
            Direct(field) = {} =>
                Resolved(field) =
                    IF Stars = {} THEN Extract(field, NoneNode)
                    ELSE Extract(field, Supplied(Last(Stars), field))

\* content was computed for a call with two `**` arguments that supply different
\* values of a field, and the field is the last one's
C5_Witness ==
    /\ ContentGiven
    /\ \E field \in FIELDNAMES :
          /\ Direct(field) = {}
          /\ Stars # {}
          /\ First(Stars) # Last(Stars)
          /\ Supplied(First(Stars), field) # NoneNode
          /\ Supplied(Last(Stars), field) # NoneNode
          /\ Extract(field, Supplied(First(Stars), field)) # Resolved(field)
          /\ Resolved(field) \notin {NoneV, ListV(<<>>), DictV(<<>>)}

\* the value found for a list or mapping field: the direct keyword's, or what
\* the last `**` argument supplies
Found(field) ==
    IF Direct(field) # {} THEN Keywords[First(Direct(field))].value
    ELSE IF Stars = {} THEN NoneNode
    ELSE Supplied(Last(Stars), field)

\* the list literal install_requires resolves to
ListLiteral(value) ==
    IF value.kind \in {"List", "Name"} /\ Hop(value).kind = "List" THEN Hop(value)
    ELSE NoneNode

WellFormed ==
    /\ MappingLiteral(Found("extras_require")) # NoneNode =>
          AllStrings(MappingLiteral(Found("extras_require")))
    /\ ListLiteral(Found("install_requires")) # NoneNode =>
          \A j \in 1..Len(ListLiteral(Found("install_requires")).elts) :
              ListLiteral(Found("install_requires")).elts[j].kind = "Str"

\* C3: content never raises for a file with a setup call, and a field that
\* cannot be resolved leaves the other fields their values (here name is "x").
C3_NeverRaises ==
    ret.prop = "content" /\ SetupCalls # {} =>
        /\ ret.out.ok
        /\ Resolved("name") = StrV("x")

Written(key) == {i \in 1..Len(output.v) : output.v[i][1] = key}

\* what the accessor get_<key> returns, NoneNode when there is no such accessor
Accessor(key) ==
    {dist.methods[i].value : i \in {j \in 1..Len(dist.methods) :
        dist.methods[j].prefix = "get_" /\ dist.methods[j].rest = key}}

\* the value of the attribute key, after run
Attr(key) ==
    {dist.attrs[i][2] : i \in {j \in 1..Len(dist.attrs) : dist.attrs[j][1] = key}}

\* C7: the object run writes has only keys of FIELDS, each with the value of the
\* attribute or of the get_ accessor of that name, none of them "UNKNOWN", None
\* or ["UNKNOWN"]; where the accessor's value is none of these, it is the one
\* written.
C7_AllowListNoSentinel ==
    output.t = "dict" =>
        /\ \A i \in 1..Len(output.v) :
              /\ output.v[i][1] \in FIELDS
              /\ ~IsSentinel(output.v[i][2])
              /\ output.v[i][2] \in Attr(output.v[i][1]) \cup Accessor(output.v[i][1])
        /\ \A key \in FIELDS : \A value \in Accessor(key) :
              ~IsSentinel(value) =>
                  \E i \in Written(key) : output.v[i][2] = value

\* run wrote an object for a distribution whose attribute name and accessor
\* get_name differ, beside an attribute outside FIELDS, a sentinel and an
\* entry_points whose sets were made lists
C7_Witness ==
    /\ output.t = "dict"
    /\ \E a \in Attr("name") : \E g \in Accessor("name") :
          a # g /\ ~IsSentinel(a) /\ ~IsSentinel(g)
    /\ Attr("script_name") # {}
    /\ Accessor("fullname") # {}
    /\ Written("entry_points") # {}
    /\ \E i \in Written("entry_points") : Len(output.v[i][2].v) = 2

=============================================================================
